---- MODULE Spec2Model ----
(***************************************************************************)
(* Model of the MongoDB instance resource of the alicloud provider         *)
(* (alicloud/resource_alicloud_mongodb_instance.go): the create-request    *)
(* builder and the Create / Read / Update / Delete handlers, run against   *)
(* a remote control plane whose instance status changes asynchronously.    *)
(*                                                                         *)
(* Strings the code inspects character by character (zone ids, subnet      *)
(* ids, IP lists, numbers in their decimal form) are sequences of          *)
(* one-character strings; strings the code only copies or compares with    *)
(* "" are TLA+ strings.                                                    *)
(***************************************************************************)
EXTENDS Integers, Sequences, FiniteSets, TLC

(***************************************************************************)
(* Bounds of the model.                                                    *)
(***************************************************************************)
\* largest number of members in a declared allowed-IP set
MaxIps == 2
\* largest number of handler invocations in one behaviour of Spec
MaxOps == 2
\* largest number of status fetches of one WaitForState before its timeout
MaxPolls == 2
\* largest number of delete attempts that fit the 50 minute retry budget
MaxAttempts == 2
\* largest number of watched fields that differ from the last-known state
MaxChanged == 2

(***************************************************************************)
(* String helpers (Go's strings package, strconv, and the provider's own   *)
(* Trim), on sequences of characters.                                      *)
(***************************************************************************)
Contains(s, sub) ==
    \E i \in 1..(Len(s) - Len(sub) + 1) : SubSeq(s, i, i + Len(sub) - 1) = sub

HasChar(s, c) == \E i \in 1..Len(s) : s[i] = c

FirstIndex(s, c) ==
    CHOOSE i \in 1..Len(s) : s[i] = c /\ \A j \in 1..(i - 1) : s[j] # c

RECURSIVE SplitAfter(_, _)
SplitAfter(s, c) ==
    IF ~HasChar(s, c) THEN <<s>>
    ELSE LET i == FirstIndex(s, c)
         IN  <<SubSeq(s, 1, i)>> \o SplitAfter(SubSeq(s, i + 1, Len(s)), c)

RECURSIVE Split(_, _)
Split(s, c) ==
    IF ~HasChar(s, c) THEN <<s>>
    ELSE LET i == FirstIndex(s, c)
         IN  <<SubSeq(s, 1, i - 1)>> \o Split(SubSeq(s, i + 1, Len(s)), c)

RECURSIVE Join(_, _)
Join(list, sep) ==
    IF list = <<>> THEN <<>>
    ELSE IF Len(list) = 1 THEN list[1]
    ELSE list[1] \o sep \o Join(Tail(list), sep)

RECURSIVE TrimLeft(_)
TrimLeft(v) ==
    IF v # <<>> /\ Head(v) = " " THEN TrimLeft(Tail(v)) ELSE v

RECURSIVE TrimRight(_)
TrimRight(v) ==
    IF v # <<>> /\ v[Len(v)] = " " THEN TrimRight(SubSeq(v, 1, Len(v) - 1)) ELSE v

Trim(v) == IF Len(v) < 1 THEN v ELSE TrimRight(TrimLeft(v))

UpperChar(ch) ==
    CASE ch = "p" -> "P"
      [] ch = "c" -> "C"
      [] OTHER    -> ch

ToUpper(s) == [i \in 1..Len(s) |-> UpperChar(s[i])]

DigitChars == <<"0", "1", "2", "3", "4", "5", "6", "7", "8", "9">>

RECURSIVE Itoa(_)
Itoa(n) ==
    IF n < 10 THEN <<DigitChars[n + 1]>>
    ELSE Itoa(n \div 10) \o <<DigitChars[(n % 10) + 1]>>

IsDigit(ch) == \E i \in 1..10 : DigitChars[i] = ch

DigitValue(ch) == (CHOOSE i \in 1..10 : DigitChars[i] = ch) - 1

\* strconv.Atoi on an unsigned decimal: ok is FALSE on "" or a non-digit
RECURSIVE AtoiValue(_)
AtoiValue(s) ==
    IF s = <<>> THEN 0
    ELSE 10 * AtoiValue(SubSeq(s, 1, Len(s) - 1)) + DigitValue(s[Len(s)])

Atoi(s) ==
    IF s # <<>> /\ \A i \in 1..Len(s) : IsDigit(s[i])
    THEN [ok |-> TRUE, value |-> AtoiValue(s)]
    ELSE [ok |-> FALSE, value |-> 0]

(***************************************************************************)
(* Program constants.                                                      *)
(***************************************************************************)
LOCAL_HOST_IP == <<"1", "2", "7", ".", "0", ".", "0", ".", "1">>
COMMA_SEPARATED == <<",">>
MULTI_IZ_SYMBOL == <<"M", "A", "Z">>
Classic == <<"C", "l", "a", "s", "s", "i", "c">>
Vpc == <<"V", "p", "c">>
PrePaid == "PrePaid"
PostPaid == "PostPaid"

Region == "region"

(***************************************************************************)
(* Input values.  Zone ids: two plain zones, two multi-zone groups with a  *)
(* parenthesized suffix set, and a group id that lacks the parentheses.    *)
(***************************************************************************)
ZoneA == <<"z", "-", "a">>
ZoneC == <<"z", "-", "c">>
MultiAB == <<"z", "-", "M", "A", "Z", "(", "a", ",", "b", ")">>
MultiBC == <<"z", "-", "M", "A", "Z", "(", "b", ",", "c", ")">>
MultiNoParen == <<"z", "-", "M", "A", "Z">>
ZoneIds == {<<>>, ZoneA, ZoneC, MultiAB, MultiBC, MultiNoParen}

Subnet1 == <<"v", "1">>
Subnet2 == <<"v", "2">>
VSwitchIds == {<<>>, <<" ">>, Subnet1, <<" ">> \o Subnet1 \o <<" ">>, Subnet2}

IpA == <<"1", ".", "2">>
IpB == <<"3", ".", "4">>
IpMembers == {<<>>, IpA, IpB}

\* schema.Set lists its members in a fixed order (by hash code): the rank
SetRank(m) ==
    CASE m = <<>>              -> 0
      [] m = LOCAL_HOST_IP     -> 1
      [] m = IpA               -> 2
      [] m = IpB               -> 3
      [] m = <<"M">>           -> 4
      [] m = <<"T">>           -> 5

\* schema.Set.List(): the members of a set, each once, in the fixed order
SetList(S) ==
    CHOOSE l \in [1..Cardinality(S) -> S] :
        \A i, j \in 1..Cardinality(S) : i < j => SetRank(l[i]) < SetRank(l[j])

\* the set a list of strings is stored as by d.Set, listed again
AsSet(list) == SetList({list[i] : i \in 1..Len(list)})

\* the allowed-IP sets of at most n members, as schema.Set lists them
IpLists(n) == {SetList(S) : S \in {T \in SUBSET IpMembers : Cardinality(T) <= n}}

EngineVersion4 == <<"4", ".", "0">>
ClassSmall == <<"s", "m">>
ClassLarge == <<"l", "g">>

(***************************************************************************)
(* The two services the builder depends on.                                *)
(***************************************************************************)
\* KmsService.Decrypt: the plaintext of a ciphertext, when the call succeeds
KmsDecrypt(ciphertext) ==
    CASE ciphertext = "cipher" -> "plain"
      [] OTHER                 -> ""

\* VpcService.DescribeVSwitch: the subnet's owning zone and network
DescribeVSwitch(vswitchId) ==
    CASE vswitchId = Subnet1 -> [VSwitchId |-> Subnet1, ZoneId |-> ZoneA, VpcId |-> "vpc1"]
      [] vswitchId = Subnet2 -> [VSwitchId |-> Subnet2, ZoneId |-> ZoneC, VpcId |-> "vpc2"]

(***************************************************************************)
(* buildMongoDBCreateRequest, in the order of its statements.              *)
(***************************************************************************)
ZeroRequest ==
    [RegionId |-> "", EngineVersion |-> <<>>, Engine |-> "",
     DBInstanceStorage |-> <<>>, DBInstanceClass |-> <<>>,
     DBInstanceDescription |-> "", AccountPassword |-> "", ZoneId |-> <<>>,
     StorageEngine |-> "", ReplicationFactor |-> <<>>, NetworkType |-> <<>>,
     VSwitchId |-> <<>>, VpcId |-> "", ChargeType |-> "", Period |-> <<>>,
     SecurityIPList |-> <<>>, ClientToken |-> ""]

\* lines 156-166: the credential of the request, and the Decrypt calls made
ResolveCredential(accountPassword, kmsPassword, decryptOk) ==
    IF accountPassword = ""
    THEN IF kmsPassword = ""
         THEN IF decryptOk
              THEN [err |-> "", password |-> KmsDecrypt(kmsPassword),
                    decryptCalls |-> <<kmsPassword>>]
              ELSE [err |-> "DecryptFailed", password |-> accountPassword,
                    decryptCalls |-> <<kmsPassword>>]
         ELSE [err |-> "", password |-> accountPassword, decryptCalls |-> <<>>]
    ELSE [err |-> "", password |-> accountPassword, decryptCalls |-> <<>>]

\* MultiZoneCheck with the subnet's zone never compared with the group
MultiZoneCheck_Unchecked(zoneId, vswZoneId) ==
    LET parts == SplitAfter(zoneId, "(")
    IN  IF Len(parts) < 2 \/ vswZoneId = <<>> THEN "Panic" ELSE ""

\* lines 187-191: is the subnet's zone inside the multi-zone group
MultiZoneCheck(zoneId, vswZoneId) ==
    LET parts == SplitAfter(zoneId, "(")
    IN  IF Len(parts) < 2 \/ vswZoneId = <<>>
        THEN "Panic"
        ELSE LET zonestr == Split(parts[2], ")")[1]
             IN  IF ~Contains(zonestr, <<vswZoneId[Len(vswZoneId)]>>)
                 THEN "NotInMultiZone"
                 ELSE ""

\* ResolveNetwork with the plain-zone comparison of line 192 left out
ResolveNetwork_NoZoneCheck(zoneId, vswitchId, vswOk) ==
    LET classic == [err |-> "", ZoneId |-> zoneId, NetworkType |-> Classic,
                    VSwitchId |-> <<>>, VpcId |-> "", vswCalls |-> <<>>]
        failed(e) == [classic EXCEPT !.err = e, !.vswCalls = <<vswitchId>>]
    IN  IF vswitchId = <<>> THEN classic
        ELSE IF ~vswOk THEN failed("VSwitchLookupFailed")
        ELSE LET vsw == DescribeVSwitch(vswitchId)
                 vpc(z) == [err |-> "", ZoneId |-> z, NetworkType |-> ToUpper(Vpc),
                            VSwitchId |-> vswitchId, VpcId |-> vsw.VpcId,
                            vswCalls |-> <<vswitchId>>]
             IN  IF zoneId = <<>> THEN vpc(vsw.ZoneId)
                 ELSE IF Contains(zoneId, MULTI_IZ_SYMBOL)
                 THEN LET e == MultiZoneCheck(zoneId, vsw.ZoneId)
                      IN  IF e # "" THEN failed(e) ELSE vpc(zoneId)
                 ELSE vpc(zoneId)

\* ResolveNetwork with the empty declared zone left empty (line 186 left out)
ResolveNetwork_ZoneNotAdopted(zoneId, vswitchId, vswOk) ==
    LET classic == [err |-> "", ZoneId |-> zoneId, NetworkType |-> Classic,
                    VSwitchId |-> <<>>, VpcId |-> "", vswCalls |-> <<>>]
        failed(e) == [classic EXCEPT !.err = e, !.vswCalls = <<vswitchId>>]
    IN  IF vswitchId = <<>> THEN classic
        ELSE IF ~vswOk THEN failed("VSwitchLookupFailed")
        ELSE LET vsw == DescribeVSwitch(vswitchId)
                 vpc(z) == [err |-> "", ZoneId |-> z, NetworkType |-> ToUpper(Vpc),
                            VSwitchId |-> vswitchId, VpcId |-> vsw.VpcId,
                            vswCalls |-> <<vswitchId>>]
             IN  IF zoneId = <<>> THEN vpc(zoneId)
                 ELSE IF Contains(zoneId, MULTI_IZ_SYMBOL)
                 THEN LET e == MultiZoneCheck(zoneId, vsw.ZoneId)
                      IN  IF e # "" THEN failed(e) ELSE vpc(zoneId)
                 ELSE IF zoneId # vsw.ZoneId THEN failed("NotInZone")
                 ELSE vpc(zoneId)

\* lines 175-198: network type, zone, subnet and VPC of the request
ResolveNetwork(zoneId, vswitchId, vswOk) ==
    LET classic == [err |-> "", ZoneId |-> zoneId, NetworkType |-> Classic,
                    VSwitchId |-> <<>>, VpcId |-> "", vswCalls |-> <<>>]
        failed(e) == [classic EXCEPT !.err = e, !.vswCalls = <<vswitchId>>]
    IN  IF vswitchId = <<>> THEN classic
        ELSE IF ~vswOk THEN failed("VSwitchLookupFailed")
        ELSE LET vsw == DescribeVSwitch(vswitchId)
                 vpc(z) == [err |-> "", ZoneId |-> z, NetworkType |-> ToUpper(Vpc),
                            VSwitchId |-> vswitchId, VpcId |-> vsw.VpcId,
                            vswCalls |-> <<vswitchId>>]
             IN  IF zoneId = <<>> THEN vpc(vsw.ZoneId)
                 ELSE IF Contains(zoneId, MULTI_IZ_SYMBOL)
                 THEN LET e == MultiZoneCheck(zoneId, vsw.ZoneId)
                      IN  IF e # "" THEN failed(e) ELSE vpc(zoneId)
                 ELSE IF zoneId # vsw.ZoneId THEN failed("NotInZone")
                 ELSE vpc(zoneId)

\* lines 200-204: the period is attached for a prepaid instance with a period
BillingPeriod(chargeType, period) ==
    IF chargeType = PrePaid /\ period # 0 THEN Itoa(period) ELSE <<>>

\* lines 206-209: the allowed-IP string of the create request
CreateSecurityIPList(ipList) ==
    IF Len(ipList) > 0 THEN Join(ipList, COMMA_SEPARATED) ELSE LOCAL_HOST_IP

buildMongoDBCreateRequest(c, decryptOk, vswOk) ==
    LET cred == ResolveCredential(c.account_password, c.kms_encrypted_password, decryptOk)
        r1 == [ZeroRequest EXCEPT
                 !.RegionId = Region,
                 !.EngineVersion = Trim(c.engine_version),
                 !.Engine = "MongoDB",
                 !.DBInstanceStorage = Itoa(c.db_instance_storage),
                 !.DBInstanceClass = Trim(c.db_instance_class),
                 !.DBInstanceDescription = c.name,
                 !.AccountPassword = cred.password]
        r2 == [r1 EXCEPT
                 !.ZoneId = c.zone_id,
                 !.StorageEngine = c.storage_engine,
                 !.ReplicationFactor =
                     IF c.replication_factor # 0 THEN Itoa(c.replication_factor) ELSE <<>>]
        net == ResolveNetwork(r2.ZoneId, Trim(c.vswitch_id), vswOk)
        r3 == [r2 EXCEPT
                 !.NetworkType = net.NetworkType,
                 !.ZoneId = net.ZoneId,
                 !.VSwitchId = net.VSwitchId,
                 !.VpcId = net.VpcId]
        r4 == [r3 EXCEPT
                 !.ChargeType = c.instance_charge_type,
                 !.Period = BillingPeriod(c.instance_charge_type, c.period),
                 !.SecurityIPList = CreateSecurityIPList(c.security_ip_list),
                 !.ClientToken = "CreateDBInstance"]
    IN  IF cred.err # ""
        THEN [err |-> cred.err, nil |-> FALSE, req |-> r1,
              decryptCalls |-> cred.decryptCalls, vswCalls |-> <<>>]
        ELSE IF net.err # ""
        THEN [err |-> net.err, nil |-> TRUE, req |-> ZeroRequest,
              decryptCalls |-> cred.decryptCalls, vswCalls |-> net.vswCalls]
        ELSE [err |-> "", nil |-> FALSE, req |-> r4,
              decryptCalls |-> cred.decryptCalls, vswCalls |-> net.vswCalls]

(***************************************************************************)
(* The descriptor (schema.ResourceData) and the Desired Configuration.     *)
(***************************************************************************)
\* the fields whose change makes Update issue a remote call
WatchedFields ==
    {"backup_time", "backup_period", "maintain_start_time", "maintain_end_time",
     "name", "security_ip_list", "account_password", "kms_encrypted_password",
     "db_instance_storage", "db_instance_class", "replication_factor"}

\* the values of a resource that was never applied
ZeroState ==
    [engine_version |-> <<>>, db_instance_class |-> <<>>, db_instance_storage |-> 0,
     replication_factor |-> 0, storage_engine |-> "", instance_charge_type |-> "",
     period |-> 0, zone_id |-> <<>>, vswitch_id |-> <<>>, name |-> "",
     security_ip_list |-> <<>>, account_password |-> "",
     kms_encrypted_password |-> "", backup_period |-> <<>>, backup_time |-> "",
     retention_period |-> 0, maintain_start_time |-> "", maintain_end_time |-> ""]

\* the last-known state of an instance that already exists
BaseState ==
    [engine_version |-> EngineVersion4, db_instance_class |-> ClassSmall,
     db_instance_storage |-> 10, replication_factor |-> 3,
     storage_engine |-> "WiredTiger", instance_charge_type |-> PostPaid,
     period |-> 0, zone_id |-> ZoneA, vswitch_id |-> Subnet1, name |-> "n0",
     security_ip_list |-> <<IpA>>, account_password |-> "",
     kms_encrypted_password |-> "", backup_period |-> << <<"M">> >>,
     backup_time |-> "t0", retention_period |-> 7,
     maintain_start_time |-> "m0", maintain_end_time |-> "e0"]

\* account_password and kms_encrypted_password conflict (schema lines 95-104)
CredentialPairs ==
    {p \in [account_password : {"", "pw"}, kms_encrypted_password : {"", "cipher"}] :
        p.account_password = "" \/ p.kms_encrypted_password = ""}

\* the configurations the builder is applied to
BuilderConfigs ==
    {[BaseState EXCEPT
        !.zone_id = x.zone_id, !.vswitch_id = x.vswitch_id,
        !.security_ip_list = x.security_ip_list,
        !.account_password = x.cred.account_password,
        !.kms_encrypted_password = x.cred.kms_encrypted_password,
        !.instance_charge_type = x.instance_charge_type, !.period = x.period] :
     x \in [zone_id : ZoneIds, vswitch_id : VSwitchIds,
            security_ip_list : IpLists(MaxIps), cred : CredentialPairs,
            instance_charge_type : {PrePaid, PostPaid}, period : {0, 1}]}

\* the allowed-IP sets of the lifecycle: empty, only the empty string, one
\* address, two addresses
LifecycleIpLists == {<<>>, << <<>> >>, <<IpA>>, <<IpA, IpB>>}

\* the configurations applied to the existing instance: at most MaxChanged
\* watched fields differ from its last-known state
LifecycleConfigs ==
    {c \in {[BaseState EXCEPT
               !.backup_time = x.backup_time, !.backup_period = x.backup_period,
               !.maintain_start_time = x.maintain_start_time,
               !.maintain_end_time = x.maintain_end_time, !.name = x.name,
               !.security_ip_list = x.security_ip_list,
               !.account_password = x.cred.account_password,
               !.kms_encrypted_password = x.cred.kms_encrypted_password,
               !.db_instance_storage = x.db_instance_storage,
               !.db_instance_class = x.db_instance_class,
               !.replication_factor = x.replication_factor] :
             x \in [backup_time : {"t0", "t1"},
                    backup_period : {<< <<"M">> >>, << <<"M">>, <<"T">> >>},
                    maintain_start_time : {"m0", "m1"},
                    maintain_end_time : {"e0", "e1"}, name : {"n0", "n1"},
                    security_ip_list : LifecycleIpLists, cred : CredentialPairs,
                    db_instance_storage : {10, 20},
                    db_instance_class : {ClassSmall, ClassLarge},
                    replication_factor : {3, 5}]} :
        Cardinality({k \in WatchedFields : c[k] # BaseState[k]}) <= MaxChanged}

\* the configurations a new resource is created from: the backup window
\* and the maintenance window are declared or not
CreateConfigs ==
    {[BaseState EXCEPT
        !.backup_time = x.backup.backup_time,
        !.backup_period = x.backup.backup_period,
        !.maintain_start_time = x.maintain.maintain_start_time,
        !.maintain_end_time = x.maintain.maintain_end_time,
        !.security_ip_list = x.security_ip_list,
        !.account_password = x.cred.account_password,
        !.kms_encrypted_password = x.cred.kms_encrypted_password] :
     x \in [backup : {[backup_time |-> "t1", backup_period |-> << <<"M">>, <<"T">> >>],
                      [backup_time |-> "", backup_period |-> <<>>]},
            maintain : {[maintain_start_time |-> "m1", maintain_end_time |-> "e1"],
                        [maintain_start_time |-> "", maintain_end_time |-> ""]},
            security_ip_list : LifecycleIpLists, cred : CredentialPairs]}

VARIABLES
    cfg,       \* the Desired Configuration of this apply (planned values)
    d,         \* the descriptor: identity, last-known state, written fields
    remote,    \* the instance on the remote control plane
    pc,        \* position of the running handler, "idle" when none runs
    op,        \* the handler the orchestrator invoked last
    polls,     \* status fetches made by the WaitForState in progress
    attempts,  \* delete calls made by the resource.Retry in progress
    changed,   \* the watched fields that had changed when the handler began
    calls,     \* the remote calls of the current invocation, in order
    result,    \* what the last handler returned
    built,     \* what buildMongoDBCreateRequest returned in this invocation
    ops        \* handler invocations so far

vars == <<cfg, d, remote, pc, op, polls, attempts, changed, calls, result, built, ops>>

\* the Optional and Computed fields of a primitive type: left empty in the
\* configuration, they are planned to keep their last-known value
ComputedPrimitives ==
    {"replication_factor", "storage_engine", "instance_charge_type", "period",
     "zone_id", "vswitch_id", "backup_time", "maintain_start_time",
     "maintain_end_time"}

Undeclared(k) == k \in ComputedPrimitives /\ cfg[k] = ZeroState[k]

\* d.Get: the value written by d.Set in this invocation, else the planned one
Get(k) ==
    IF k \in d.written THEN d.set[k]
    ELSE IF Undeclared(k) THEN d.state[k]
    ELSE cfg[k]

\* d.HasChange: the planned value differs from the last-known state
HasChange(k) == ~Undeclared(k) /\ d.state[k] # cfg[k]

NoBuild ==
    [err |-> "", nil |-> TRUE, req |-> ZeroRequest, decryptCalls |-> <<>>,
     vswCalls |-> <<>>]

ZeroInstance ==
    [DBInstanceDescription |-> "", EngineVersion |-> <<>>, DBInstanceClass |-> <<>>,
     DBInstanceStorage |-> 0, ZoneId |-> <<>>, ChargeType |-> "", VSwitchId |-> <<>>,
     StorageEngine |-> "", MaintainStartTime |-> "", MaintainEndTime |-> "",
     ReplicationFactor |-> <<>>]

ZeroBackupPolicy ==
    [PreferredBackupTime |-> "", PreferredBackupPeriod |-> <<>>,
     BackupRetentionPeriod |-> 0]

NoSpec ==
    [DBInstanceClass |-> <<>>, DBInstanceStorage |-> <<>>, ReplicationFactor |-> <<>>]

\* the remote before the create call is accepted
NoInstance ==
    [exists |-> FALSE, id |-> "", status |-> "", instance |-> ZeroInstance,
     backup |-> ZeroBackupPolicy, SecurityIps |-> <<>>, AccountPassword |-> "",
     pendingSpec |-> FALSE, spec |-> NoSpec, deleting |-> FALSE]

NewDescriptor ==
    [id |-> "", state |-> ZeroState, set |-> ZeroState, written |-> {},
     partial |-> FALSE, partialKeys |-> {}, isNew |-> FALSE]

InstanceIds == {"i-2"}

\* an entry of the call log: the API, the identifier it is keyed by, and
\* what the call observed ("" when it observes nothing)
Call(api, id, seen) == [api |-> api, id |-> id, seen |-> seen]

RECURSIVE CallsOf(_, _)
CallsOf(api, args) ==
    IF args = <<>> THEN <<>>
    ELSE <<Call(api, "", "")>> \o CallsOf(api, Tail(args))

\* the remote's defaults for what the create request leaves empty
OrDefault(v, zero, dflt) == IF v = zero THEN dflt ELSE v

\* the instance the control plane creates from an accepted create request
CreatedInstance(req, newId) ==
    [exists |-> TRUE, id |-> newId, status |-> "Creating",
     instance |->
        [DBInstanceDescription |-> req.DBInstanceDescription,
         EngineVersion |-> req.EngineVersion,
         DBInstanceClass |-> req.DBInstanceClass,
         DBInstanceStorage |-> Atoi(req.DBInstanceStorage).value,
         ZoneId |-> OrDefault(req.ZoneId, <<>>, ZoneA),
         ChargeType |-> OrDefault(req.ChargeType, "", PostPaid),
         VSwitchId |-> req.VSwitchId,
         StorageEngine |-> OrDefault(req.StorageEngine, "", "WiredTiger"),
         MaintainStartTime |-> "m0", MaintainEndTime |-> "e0",
         ReplicationFactor |-> OrDefault(req.ReplicationFactor, <<>>, <<"3">>)],
     backup |-> [PreferredBackupTime |-> "t0", PreferredBackupPeriod |-> <<"M">>,
                 BackupRetentionPeriod |-> 7],
     SecurityIps |-> req.SecurityIPList, AccountPassword |-> req.AccountPassword,
     pendingSpec |-> FALSE, spec |-> NoSpec, deleting |-> FALSE]

\* the remote instance whose attributes the last-known state s mirrors
ExistingInstance(s, id, status) ==
    [exists |-> TRUE, id |-> id, status |-> status,
     instance |->
        [DBInstanceDescription |-> s.name, EngineVersion |-> s.engine_version,
         DBInstanceClass |-> s.db_instance_class,
         DBInstanceStorage |-> s.db_instance_storage, ZoneId |-> s.zone_id,
         ChargeType |-> s.instance_charge_type, VSwitchId |-> s.vswitch_id,
         StorageEngine |-> s.storage_engine,
         MaintainStartTime |-> s.maintain_start_time,
         MaintainEndTime |-> s.maintain_end_time,
         ReplicationFactor |-> Itoa(s.replication_factor)],
     backup |-> [PreferredBackupTime |-> s.backup_time,
                 PreferredBackupPeriod |-> Join(s.backup_period, COMMA_SEPARATED),
                 BackupRetentionPeriod |-> s.retention_period],
     SecurityIps |-> Join(s.security_ip_list, COMMA_SEPARATED),
     AccountPassword |-> "", pendingSpec |-> FALSE, spec |-> NoSpec,
     deleting |-> FALSE]

InitCommon ==
    /\ pc = "idle" /\ op = "none" /\ polls = 0 /\ attempts = 0
    /\ changed = {} /\ calls = <<>> /\ result = "none" /\ built = NoBuild
    /\ ops = 0

\* a resource that is not created yet, with a configuration for the builder
InitBuilder ==
    /\ cfg \in BuilderConfigs
    /\ d = NewDescriptor
    /\ remote = NoInstance
    /\ InitCommon

\* an identifier never stored: SetId that loses the identifier
SetId_Dropped(dd, id) == dd

\* d.SetId
SetId(dd, id) == [dd EXCEPT !.id = id]

(***************************************************************************)
(* Create (lines 215-243): build, submit, wait for Running, then Update.   *)
(***************************************************************************)
\* lines 219-222: the request is built; an error of the builder ends Create
CreateBuild ==
    /\ pc = "idle" /\ d.id = "" /\ remote.id = "" /\ ops < MaxOps
    /\ \E decryptOk, vswOk \in BOOLEAN :
         LET b == buildMongoDBCreateRequest(cfg, decryptOk, vswOk)
         IN  /\ built' = b
             /\ calls' = CallsOf("Decrypt", b.decryptCalls)
                            \o CallsOf("DescribeVSwitch", b.vswCalls)
             /\ IF b.err # ""
                THEN pc' = "idle" /\ result' = b.err
                ELSE pc' = "c_submit" /\ result' = "running"
    /\ op' = "Create" /\ ops' = ops + 1
    /\ d' = [d EXCEPT !.isNew = TRUE, !.written = {}, !.set = ZeroState,
                      !.partial = FALSE, !.partialKeys = {}]
    /\ changed' = {k \in WatchedFields : HasChange(k)}
    /\ UNCHANGED <<cfg, remote, polls, attempts>>

\* lines 224-235: the create call; its response carries the identifier
CreateSubmit ==
    /\ pc = "c_submit"
    /\ \/ \E newId \in InstanceIds :
            /\ remote' = CreatedInstance(built.req, newId)
            /\ d' = SetId(d, newId)
            /\ calls' = Append(calls, Call("CreateDBInstance", "", ""))
            /\ pc' = "c_wait" /\ polls' = 0
            /\ UNCHANGED result
       \/ /\ calls' = Append(calls, Call("CreateDBInstance", "", "Error"))
          /\ pc' = "idle" /\ result' = "ApiError"
          /\ UNCHANGED <<remote, d, polls>>
    /\ UNCHANGED <<cfg, op, attempts, changed, built, ops>>

NextBuilder == CreateBuild \/ CreateSubmit

SpecBuilder == InitBuilder /\ [][NextBuilder]_vars

(***************************************************************************)
(* What the orchestrator keeps of the descriptor when a handler returns    *)
(* (schema.ResourceData.State): in partial mode only the fields marked by  *)
(* SetPartial take their new value.                                        *)
(***************************************************************************)
Persist(dd, fallback) ==
    IF dd.id = "" THEN dd
    ELSE [dd EXCEPT !.state =
            [k \in DOMAIN ZeroState |->
                IF dd.partial /\ k \notin dd.partialKeys THEN dd.state[k]
                ELSE IF k \in dd.written THEN dd.set[k]
                ELSE IF Undeclared(k) THEN dd.state[k]
                ELSE fallback[k]]]

\* a return that drops the identity when the handler failed
Finish_ForgetsOnError(dd, res) ==
    /\ pc' = "idle"
    /\ result' = res
    /\ d' = IF res = "ok" THEN Persist(dd, cfg) ELSE Persist(SetId(dd, ""), cfg)

\* the handler returns res, leaving the descriptor dd
Finish(dd, res) ==
    /\ pc' = "idle"
    /\ result' = res
    /\ d' = Persist(dd, cfg)

\* d.SetPartial
SetPartial(dd, keys) == [dd EXCEPT !.partialKeys = @ \cup keys]

\* d.Set of several fields: vals is a record of the fields written
SetAll(dd, vals) ==
    [dd EXCEPT !.written = @ \cup DOMAIN vals,
               !.set = [k \in DOMAIN ZeroState |->
                          IF k \in DOMAIN vals THEN vals[k] ELSE @[k]]]

(***************************************************************************)
(* The remote control plane.                                               *)
(***************************************************************************)
\* the instance the identifier id names is present on the remote
Visible(id) == remote.exists /\ remote.id = id

\* the remote accepts a modification of a present instance that is not
\* being deleted
Modifiable(id) == Visible(id) /\ remote.status \in {"Running", "DBInstanceClassChanging"}

\* the remote is followed while a handler runs or one can still be invoked
Observed == pc # "idle" \/ ops < MaxOps

\* the creation completes
RemoteCreated ==
    /\ Observed /\ remote.exists /\ remote.status = "Creating"
    /\ remote' = [remote EXCEPT !.status = "Running"]
    /\ UNCHANGED <<cfg, d, pc, op, polls, attempts, changed, calls, result, built, ops>>

\* an accepted spec change begins: the instance leaves Running
RemoteSpecBegin ==
    /\ Observed /\ remote.exists /\ remote.status = "Running" /\ remote.pendingSpec
    /\ remote' = [remote EXCEPT !.status = "DBInstanceClassChanging"]
    /\ UNCHANGED <<cfg, d, pc, op, polls, attempts, changed, calls, result, built, ops>>

\* a change of class completes: the pending spec, if any, is applied
RemoteSpecEnd ==
    /\ Observed /\ remote.exists /\ remote.status = "DBInstanceClassChanging"
    /\ remote' =
         IF remote.pendingSpec
         THEN [remote EXCEPT
                 !.status = "Running", !.pendingSpec = FALSE, !.spec = NoSpec,
                 !.instance.DBInstanceClass = remote.spec.DBInstanceClass,
                 !.instance.DBInstanceStorage = Atoi(remote.spec.DBInstanceStorage).value,
                 !.instance.ReplicationFactor = remote.spec.ReplicationFactor]
         ELSE [remote EXCEPT !.status = "Running"]
    /\ UNCHANGED <<cfg, d, pc, op, polls, attempts, changed, calls, result, built, ops>>

\* an accepted deletion begins
RemoteDeleteBegin ==
    /\ Observed /\ remote.exists /\ remote.deleting /\ remote.status # "Deleting"
    /\ remote' = [remote EXCEPT !.status = "Deleting"]
    /\ UNCHANGED <<cfg, d, pc, op, polls, attempts, changed, calls, result, built, ops>>

\* the deletion completes: the instance is absent
RemoteGone ==
    /\ Observed /\ remote.exists /\ remote.status = "Deleting"
    /\ remote' = [NoInstance EXCEPT !.id = remote.id]
    /\ UNCHANGED <<cfg, d, pc, op, polls, attempts, changed, calls, result, built, ops>>

\* a deletion by someone else begins
ExternalDelete ==
    /\ Observed /\ remote.exists /\ ~remote.deleting
    /\ remote' = [remote EXCEPT !.deleting = TRUE, !.status = "Deleting"]
    /\ UNCHANGED <<cfg, d, pc, op, polls, attempts, changed, calls, result, built, ops>>

(***************************************************************************)
(* The status poller: BuildStateConf(pending, target, timeout, interval,   *)
(* RdsMongodbDBInstanceStateRefreshFunc(id, failStates)).WaitForState().   *)
(***************************************************************************)
\* what one status fetch reports: the status, or "" for an absent instance
RefreshStatus(id) == IF Visible(id) THEN remote.status ELSE ""

\* what WaitForState makes of one fetched status
PollOutcome(status, pending, target, failStates) ==
    IF status = "" THEN (IF target = {} THEN "done" ELSE "pending")
    ELSE IF status \in failStates THEN "FailedToReachTargetStatus"
    ELSE IF status \in target THEN "done"
    ELSE IF status \in pending THEN "pending"
    ELSE "UnexpectedState"

\* one status fetch of the wait at position p; the wait ends with success
\* (position donePc, descriptor dDone), goes on, or ends the handler with
\* an error: a failed fetch, a rejected status, or the timeout
WaitStep(p, pending, target, failStates, donePc, dDone) ==
    /\ pc = p
    /\ \/ LET status == RefreshStatus(d.id)
              outcome == PollOutcome(status, pending, target, failStates)
          IN  /\ calls' = Append(calls, Call("StatusPoll", d.id, status))
              /\ IF outcome = "done"
                 THEN /\ polls' = 0
                      /\ IF donePc = "idle"
                         THEN Finish(dDone, "ok")
                         ELSE pc' = donePc /\ d' = dDone /\ UNCHANGED result
                 ELSE IF outcome = "pending"
                 THEN IF polls + 1 < MaxPolls
                      THEN polls' = polls + 1 /\ UNCHANGED <<pc, d, result>>
                      ELSE polls' = 0 /\ Finish(d, "Timeout")
                 ELSE polls' = 0 /\ Finish(d, outcome)
       \/ /\ calls' = Append(calls, Call("StatusPoll", d.id, "Error"))
          /\ polls' = 0
          /\ Finish(d, "ApiError")
    /\ UNCHANGED <<cfg, remote, op, attempts, changed, built, ops>>

(***************************************************************************)
(* Read (lines 245-288).                                                   *)
(***************************************************************************)
\* MongoDBService.GetSecurityIps: the members of the remote's IP string
GetSecurityIps(ipstr) == Split(ipstr, ",")

\* lines 262-264: the fields written from the backup policy
BackupFields ==
    [backup_time |-> remote.backup.PreferredBackupTime,
     backup_period |-> AsSet(Split(remote.backup.PreferredBackupPeriod, ",")),
     retention_period |-> remote.backup.BackupRetentionPeriod]

\* lines 270-281: the fields written from the IP list and the instance
InstanceFields ==
    [security_ip_list |-> AsSet(GetSecurityIps(remote.SecurityIps)),
     name |-> remote.instance.DBInstanceDescription,
     engine_version |-> remote.instance.EngineVersion,
     db_instance_class |-> remote.instance.DBInstanceClass,
     db_instance_storage |-> remote.instance.DBInstanceStorage,
     zone_id |-> remote.instance.ZoneId,
     instance_charge_type |-> remote.instance.ChargeType,
     vswitch_id |-> remote.instance.VSwitchId,
     storage_engine |-> remote.instance.StorageEngine,
     maintain_start_time |-> remote.instance.MaintainStartTime,
     maintain_end_time |-> remote.instance.MaintainEndTime]

\* lines 283-285: the replica count is written when it parses
ReplicationField ==
    LET parsed == Atoi(remote.instance.ReplicationFactor)
    IN  IF parsed.ok THEN [replication_factor |-> parsed.value]
        ELSE [x \in {} |-> 0]

\* a not-found that leaves the identity in place
ReadNotFound_KeepsId(dd) == dd

\* lines 251-254: the instance is absent, the identity is cleared
ReadNotFound(dd) == SetId(dd, "")

\* the body of Read on descriptor dd, after the calls in base; fallback is
\* what the fields Read does not write keep
DoRead(dd, fallback, base) ==
    LET describe(seen) == Call("DescribeDBInstanceAttribute", dd.id, seen)
        policy(seen) == Call("DescribeBackupPolicy", dd.id, seen)
        ips(seen) == Call("DescribeSecurityIps", dd.id, seen)
        d1 == SetAll(dd, BackupFields)
        d2 == SetAll(SetAll(d1, InstanceFields), ReplicationField)
    IN  /\ pc' = "idle"
        /\ \/ /\ ~Visible(dd.id)
              /\ calls' = base \o <<describe("NotFound")>>
              /\ d' = Persist(ReadNotFound(dd), fallback)
              /\ result' = "ok"
           \/ /\ calls' = base \o <<describe("Error")>>
              /\ d' = Persist(dd, fallback)
              /\ result' = "ApiError"
           \/ /\ Visible(dd.id)
              /\ \/ /\ calls' = base \o <<describe(remote.status), policy("Error")>>
                    /\ d' = Persist(dd, fallback)
                    /\ result' = "ApiError"
                 \/ /\ calls' = base \o <<describe(remote.status), policy(""), ips("Error")>>
                    /\ d' = Persist(d1, fallback)
                    /\ result' = "ApiError"
                 \/ /\ calls' = base \o <<describe(remote.status), policy(""), ips("")>>
                    /\ d' = Persist(d2, fallback)
                    /\ result' = "ok"

\* the orchestrator refreshes the resource
Read ==
    /\ pc = "idle" /\ ops < MaxOps
    /\ op' = "Read" /\ ops' = ops + 1
    /\ changed' = {} /\ built' = NoBuild
    /\ LET dd == [d EXCEPT !.isNew = FALSE, !.written = {}, !.set = ZeroState,
                           !.partial = FALSE, !.partialKeys = {}]
       IN  DoRead(dd, dd.state, <<>>)
    /\ UNCHANGED <<cfg, remote, polls, attempts>>

\* lines 237-242: Create waits for Running, then runs Update
UpdateOrder == <<"u_backup", "u_maint", "u_name", "u_ips", "u_pwd", "u_spec_wait1">>

\* groups entered on a new resource as on an existing one
GroupDue_IgnoresNew(p, isNew) ==
    CASE p = "u_backup" -> HasChange("backup_time") \/ HasChange("backup_period")
      [] p = "u_maint"  -> HasChange("maintain_start_time") \/ HasChange("maintain_end_time")
      [] p = "u_name"   -> HasChange("name")
      [] p = "u_ips"    -> HasChange("security_ip_list")
      [] p = "u_pwd"    -> HasChange("account_password")
                              \/ HasChange("kms_encrypted_password")
      [] p = "u_spec_wait1" ->
             HasChange("db_instance_storage") \/ HasChange("db_instance_class")
                \/ HasChange("replication_factor")

\* a display-name group entered whether or not the name changed
GroupDue_NameAlways(p, isNew) == p = "u_name" /\ ~isNew

\* the condition under which Update enters the group at position p
GroupDue(p, isNew) ==
    CASE p = "u_backup" -> HasChange("backup_time") \/ HasChange("backup_period")
      [] p = "u_maint"  -> HasChange("maintain_start_time") \/ HasChange("maintain_end_time")
      [] p = "u_name"   -> ~isNew /\ HasChange("name")
      [] p = "u_ips"    -> ~isNew /\ HasChange("security_ip_list")
      [] p = "u_pwd"    -> ~isNew /\ (HasChange("account_password")
                                        \/ HasChange("kms_encrypted_password"))
      [] p = "u_spec_wait1" ->
             ~isNew /\ (HasChange("db_instance_storage")
                          \/ HasChange("db_instance_class")
                          \/ HasChange("replication_factor"))

\* the position Update reaches after the group numbered i: the next group
\* whose condition holds, or the final Read
NextUpdatePc(i, isNew) ==
    LET due == {j \in (i + 1)..Len(UpdateOrder) : GroupDue(UpdateOrder[j], isNew)}
    IN  IF due = {} THEN "u_read"
        ELSE UpdateOrder[CHOOSE j \in due : \A k \in due : j <= k]

\* a Create that starts its Update pass without the wait
CreateWait_NoWait ==
    /\ pc = "c_wait"
    /\ pc' = NextUpdatePc(0, TRUE)
    /\ d' = [d EXCEPT !.partial = TRUE]
    /\ UNCHANGED <<cfg, remote, op, polls, attempts, changed, calls, result, built, ops>>

CreateWait ==
    WaitStep("c_wait", {"Creating"}, {"Running"}, {"Deleting"},
             NextUpdatePc(0, TRUE), [d EXCEPT !.partial = TRUE])

(***************************************************************************)
(* Update (lines 290-420).                                                 *)
(***************************************************************************)
\* lines 294-296: Update begins in partial mode
UpdateBegin ==
    /\ pc = "idle" /\ d.id # "" /\ ops < MaxOps
    /\ op' = "Update" /\ ops' = ops + 1
    /\ calls' = <<>> /\ built' = NoBuild /\ result' = "running"
    /\ changed' = {k \in WatchedFields : HasChange(k)}
    /\ d' = [d EXCEPT !.isNew = FALSE, !.written = {}, !.set = ZeroState,
                      !.partial = TRUE, !.partialKeys = {}]
    /\ pc' = NextUpdatePc(0, FALSE)
    /\ UNCHANGED <<cfg, remote, polls, attempts>>

\* a field group whose refused call does not end Update
ApplyGroup_ContinuesOnError(p, idx, api, newRemote, keys) ==
    /\ pc = p
    /\ \/ /\ Modifiable(d.id)
          /\ remote' = newRemote
          /\ calls' = Append(calls, Call(api, d.id, ""))
          /\ d' = SetPartial(d, keys)
       \/ /\ calls' = Append(calls, Call(api, d.id, "Error"))
          /\ UNCHANGED <<remote, d>>
    /\ pc' = NextUpdatePc(idx, d.isNew)
    /\ UNCHANGED <<cfg, op, polls, attempts, changed, built, result, ops>>

\* one field group with a single remote call: accepted, the remote becomes
\* newRemote and the group's keys are marked; refused, Update returns
ApplyGroup(p, idx, api, newRemote, keys) ==
    /\ pc = p
    /\ \/ /\ Modifiable(d.id)
          /\ remote' = newRemote
          /\ calls' = Append(calls, Call(api, d.id, ""))
          /\ d' = SetPartial(d, keys)
          /\ pc' = NextUpdatePc(idx, d.isNew)
          /\ UNCHANGED result
       \/ /\ calls' = Append(calls, Call(api, d.id, "Error"))
          /\ Finish(d, "ApiError")
          /\ UNCHANGED remote
    /\ UNCHANGED <<cfg, op, polls, attempts, changed, built, ops>>

\* lines 296-302
UpdateBackup ==
    ApplyGroup("u_backup", 1, "ModifyBackupPolicy",
               [remote EXCEPT
                  !.backup.PreferredBackupTime = Get("backup_time"),
                  !.backup.PreferredBackupPeriod =
                      Join(Get("backup_period"), COMMA_SEPARATED)],
               {"backup_time", "backup_period"})

\* lines 304-320
UpdateMaintain ==
    ApplyGroup("u_maint", 2, "ModifyDBInstanceMaintainTime",
               [remote EXCEPT
                  !.instance.MaintainStartTime = Get("maintain_start_time"),
                  !.instance.MaintainEndTime = Get("maintain_end_time")],
               {"maintain_start_time", "maintain_end_time"})

\* lines 327-341
UpdateName ==
    ApplyGroup("u_name", 3, "ModifyDBInstanceDescription",
               [remote EXCEPT !.instance.DBInstanceDescription = Get("name")],
               {"name"})

\* the joined string submitted without the loopback default
UpdateSecurityIPList_NoDefault(ipList) == Join(ipList, COMMA_SEPARATED)

\* lines 344-349: the allowed-IP string of the update call
UpdateSecurityIPList(ipList) ==
    LET ipstr == Join(ipList, COMMA_SEPARATED)
    IN  IF ipstr = <<>> THEN LOCAL_HOST_IP ELSE ipstr

\* lines 343-355
UpdateIps ==
    ApplyGroup("u_ips", 4, "ModifySecurityIps",
               [remote EXCEPT
                  !.SecurityIps = UpdateSecurityIPList(Get("security_ip_list"))],
               {"security_ip_list"})

\* lines 357-377: the credential is resolved, then the password is reset
UpdatePassword ==
    /\ pc = "u_pwd"
    /\ LET clear == Get("account_password")
           kms == Get("kms_encrypted_password")
           reset(dd, base, password) ==
               \/ /\ Modifiable(d.id)
                  /\ remote' = [remote EXCEPT !.AccountPassword = password]
                  /\ calls' = Append(base, Call("ResetAccountPassword", d.id, ""))
                  /\ d' = dd
                  /\ pc' = NextUpdatePc(5, d.isNew)
                  /\ UNCHANGED result
               \/ /\ calls' = Append(base, Call("ResetAccountPassword", d.id, "Error"))
                  /\ Finish(dd, "ApiError")
                  /\ UNCHANGED remote
       IN  IF clear # ""
           THEN reset(SetPartial(d, {"account_password"}), calls, clear)
           ELSE \/ /\ calls' = Append(calls, Call("Decrypt", "", "Error"))
                   /\ Finish(d, "DecryptFailed")
                   /\ UNCHANGED remote
                \/ reset(SetPartial(d, {"kms_encrypted_password"}),
                         Append(calls, Call("Decrypt", "", "")), KmsDecrypt(kms))
    /\ UNCHANGED <<cfg, op, polls, attempts, changed, built, ops>>

\* a spec change submitted without the wait before it
UpdateSpecWaitBefore_NoWait ==
    /\ pc = "u_spec_wait1"
    /\ pc' = "u_spec_call"
    /\ UNCHANGED <<cfg, d, remote, op, polls, attempts, changed, calls, result, built, ops>>

\* lines 390-394: the wait before the spec change
UpdateSpecWaitBefore ==
    WaitStep("u_spec_wait1", {"DBInstanceClassChanging", "DBInstanceNetTypeChanging"},
             {"Running"}, {"Deleting"}, "u_spec_call", d)

\* lines 383-388, 396-402: the spec change is submitted
UpdateSpecCall ==
    /\ pc = "u_spec_call"
    /\ \/ /\ Visible(d.id) /\ remote.status = "Running"
          /\ remote' = [remote EXCEPT
                          !.pendingSpec = TRUE,
                          !.spec = [DBInstanceClass |-> Get("db_instance_class"),
                                    DBInstanceStorage |-> Itoa(Get("db_instance_storage")),
                                    ReplicationFactor |-> Itoa(Get("replication_factor"))]]
          /\ calls' = Append(calls, Call("ModifyDBInstanceSpec", d.id, ""))
          /\ pc' = "u_spec_wait2"
          /\ UNCHANGED <<d, result>>
       \/ /\ calls' = Append(calls, Call("ModifyDBInstanceSpec", d.id, "Error"))
          /\ Finish(d, "ApiError")
          /\ UNCHANGED remote
    /\ UNCHANGED <<cfg, op, polls, attempts, changed, built, ops>>

\* lines 404-411: the wait after the spec change, then the fields are marked
UpdateSpecWaitAfter ==
    WaitStep("u_spec_wait2", {"DBInstanceClassChanging", "DBInstanceNetTypeChanging"},
             {"Running"}, {"Deleting"}, "u_spec_wait3",
             SetPartial(d, {"db_instance_class", "db_instance_storage",
                            "replication_factor"}))

\* lines 413-416: the same wait once more
UpdateSpecWaitFinal ==
    WaitStep("u_spec_wait3", {"DBInstanceClassChanging", "DBInstanceNetTypeChanging"},
             {"Running"}, {"Deleting"}, "u_read", d)

\* an Update that returns success without the final Read
UpdateRead_NoRead ==
    /\ pc = "u_read"
    /\ Finish([d EXCEPT !.partial = FALSE], "ok")
    /\ UNCHANGED <<cfg, remote, op, polls, attempts, changed, calls, built, ops>>

\* lines 322-325 and 418-419: partial mode ends and Update returns Read's result
UpdateRead ==
    /\ pc = "u_read"
    /\ DoRead([d EXCEPT !.partial = FALSE], cfg, calls)
    /\ UNCHANGED <<cfg, remote, op, polls, attempts, changed, built, ops>>

(***************************************************************************)
(* Delete (lines 422-453).                                                 *)
(***************************************************************************)
\* MongoDBService.NotFoundMongoDBInstance
NotFoundMongoDBInstance(err) == err = "InvalidDBInstanceId.NotFound"

IsExceptedErrors(err, codes) == err \in codes

DeleteBegin ==
    /\ pc = "idle" /\ d.id # "" /\ ops < MaxOps
    /\ op' = "Delete" /\ ops' = ops + 1
    /\ calls' = <<>> /\ built' = NoBuild /\ result' = "running"
    /\ changed' = {} /\ attempts' = 0
    /\ d' = [d EXCEPT !.isNew = FALSE, !.written = {}, !.set = ZeroState,
                      !.partial = FALSE, !.partialKeys = {}]
    /\ pc' = "d_call"
    /\ UNCHANGED <<cfg, remote, polls>>

\* a Delete that reports every error of the delete call
DeleteReturn_NotFoundIsError(err) == Finish(d, "ApiError")

\* lines 444-449: what Delete makes of the error resource.Retry returned
DeleteReturn(err) ==
    IF IsExceptedErrors(err, {"InvalidDBInstanceId.NotFound"})
    THEN Finish(d, "ok")
    ELSE Finish(d, "ApiError")

\* lines 429-442: one attempt of the retried delete call
DeleteCall ==
    /\ pc = "d_call"
    /\ \E err \in {"", "InvalidDBInstanceId.NotFound", "InternalError"} :
         /\ err = "" => Visible(d.id)
         /\ err = "InvalidDBInstanceId.NotFound" => ~Visible(d.id)
         /\ calls' = Append(calls, Call("DeleteDBInstance", d.id, err))
         /\ IF err = ""
            THEN /\ remote' = [remote EXCEPT !.deleting = TRUE]
                 /\ pc' = "d_wait" /\ attempts' = 0
                 /\ UNCHANGED <<d, result>>
            ELSE IF NotFoundMongoDBInstance(err)
            THEN DeleteReturn(err) /\ attempts' = 0 /\ UNCHANGED remote
            ELSE IF attempts + 1 < MaxAttempts
            THEN attempts' = attempts + 1 /\ UNCHANGED <<remote, pc, d, result>>
            ELSE DeleteReturn(err) /\ attempts' = 0 /\ UNCHANGED remote
    /\ UNCHANGED <<cfg, op, polls, changed, built, ops>>

\* a wait that takes a running instance for a deleted one
DeleteWait_AcceptsRunning ==
    WaitStep("d_wait", {"Creating", "Deleting"}, {"Running"}, {}, "idle", d)

\* lines 450-452: the wait for the instance to disappear
DeleteWait ==
    WaitStep("d_wait", {"Creating", "Deleting"}, {}, {}, "idle", d)

(***************************************************************************)
(* The lifecycle: a resource that is new, or one that exists already with  *)
(* BaseState as its last-known state.                                      *)
(***************************************************************************)
Init ==
    /\ InitCommon
    /\ \/ /\ cfg \in CreateConfigs
          /\ d = NewDescriptor /\ remote = NoInstance
       \/ /\ cfg \in LifecycleConfigs
          /\ d = [NewDescriptor EXCEPT !.id = "i-1", !.state = BaseState]
          /\ remote = ExistingInstance(BaseState, "i-1", "Running")

Handler ==
    \/ CreateBuild \/ CreateSubmit \/ CreateWait
    \/ Read
    \/ UpdateBegin \/ UpdateBackup \/ UpdateMaintain \/ UpdateName \/ UpdateIps
    \/ UpdatePassword \/ UpdateSpecWaitBefore \/ UpdateSpecCall
    \/ UpdateSpecWaitAfter \/ UpdateSpecWaitFinal \/ UpdateRead
    \/ DeleteBegin \/ DeleteCall \/ DeleteWait

Remote ==
    \/ RemoteCreated \/ RemoteSpecBegin \/ RemoteSpecEnd
    \/ RemoteDeleteBegin \/ RemoteGone \/ ExternalDelete

Next == Handler \/ Remote

Spec == Init /\ [][Next]_vars

\* a handler that was invoked runs on: its calls block but return
HandlerProgress == pc # "idle" /\ Handler

\* the lifecycle with progress: an invoked handler runs to its return, and
\* the remote carries an accepted deletion through to the instance's absence
SpecLive ==
    /\ Init /\ [][Next]_vars
    /\ WF_vars(HandlerProgress)
    /\ WF_vars(RemoteDeleteBegin) /\ WF_vars(RemoteGone)

(***************************************************************************)
(* Properties of the create-request builder, checked under SpecBuilder.    *)
(***************************************************************************)
\* the builder has run in this invocation
HasBuilt == built # NoBuild

\* the declared subnet, as the builder reads it
DeclaredSubnet == Trim(cfg.vswitch_id)

\* the declared zone is a plain single zone
PlainZone == cfg.zone_id # <<>> /\ ~Contains(cfg.zone_id, MULTI_IZ_SYMBOL)

\* the declared zone is a multi-zone group with a parenthesized suffix set
GroupZone ==
    /\ Contains(cfg.zone_id, MULTI_IZ_SYMBOL)
    /\ HasChar(cfg.zone_id, "(") /\ HasChar(cfg.zone_id, ")")

\* the zone suffixes a multi-zone group id names between its parentheses
GroupSuffixes(zoneId) ==
    LET inner == SubSeq(zoneId, FirstIndex(zoneId, "(") + 1, FirstIndex(zoneId, ")") - 1)
        members == Split(inner, ",")
    IN  {members[i] : i \in 1..Len(members)}

\* the suffix (last character) of a zone id
ZoneSuffix(zoneId) == <<zoneId[Len(zoneId)]>>

\* both dependency calls of the builder, where made, returned an answer
DependenciesAnswered == built.err \notin {"DecryptFailed", "VSwitchLookupFailed"}

\* C1: the request carries the clear-text credential when it is non-empty,
\* without a Decrypt call; else, when the KMS ciphertext is non-empty, Decrypt
\* is called with it and the request carries the plaintext; when both are
\* empty Decrypt is not called and the credential is empty.
C1_CredentialPolicy ==
    HasBuilt =>
        LET pw == cfg.account_password
            kms == cfg.kms_encrypted_password
        IN  /\ pw # "" =>
                 /\ built.decryptCalls = <<>>
                 /\ ~built.nil => built.req.AccountPassword = pw
            /\ (pw = "" /\ kms # "") =>
                 /\ built.decryptCalls = <<kms>>
                 /\ built.err = "" => built.req.AccountPassword = KmsDecrypt(kms)
            /\ (pw = "" /\ kms = "") =>
                 /\ built.decryptCalls = <<>>
                 /\ ~built.nil => built.req.AccountPassword = ""

\* C4: with a plain single zone declared and a subnet owned by another zone,
\* the builder fails (with the zone-mismatch error once both dependency calls
\* have answered) and Create ends without a create-instance call, without a
\* remote instance and without an identifier.
C4_ZoneMismatchAborts ==
    (HasBuilt /\ PlainZone /\ DeclaredSubnet # <<>>
        /\ DescribeVSwitch(DeclaredSubnet).ZoneId # cfg.zone_id) =>
        /\ built.err # ""
        /\ DependenciesAnswered => built.err = "NotInZone"
        /\ pc = "idle" /\ result = built.err
        /\ \A i \in 1..Len(calls) : calls[i].api # "CreateDBInstance"
        /\ ~remote.exists /\ remote.id = "" /\ d.id = ""

C4_Witness ==
    /\ HasBuilt /\ PlainZone /\ DeclaredSubnet # <<>>
    /\ DescribeVSwitch(DeclaredSubnet).ZoneId # cfg.zone_id
    /\ built.err = "NotInZone" /\ result = "NotInZone" /\ pc = "idle"

\* C5 as stated: with a multi-zone group declared and a subnet given, the
\* builder succeeds and the request takes the subnet's network and the
\* subnet's zone exactly when the suffix of the subnet's zone is a member of
\* the group's suffix set, and fails with the validation error otherwise.
C5_MultiZoneAdoptsZone ==
    (HasBuilt /\ GroupZone /\ DeclaredSubnet # <<>> /\ DependenciesAnswered) =>
        LET vsw == DescribeVSwitch(DeclaredSubnet)
        IN  IF ZoneSuffix(vsw.ZoneId) \in GroupSuffixes(cfg.zone_id)
            THEN /\ built.err = ""
                 /\ built.req.VSwitchId = DeclaredSubnet
                 /\ built.req.VpcId = vsw.VpcId
                 /\ built.req.NetworkType = <<"V", "P", "C">>
                 /\ built.req.ZoneId = vsw.ZoneId
            ELSE built.err = "NotInMultiZone"

\* C5 amended: as above, but on success the request takes the subnet's
\* network (subnet id, VPC id, VPC network type) and keeps the declared
\* multi-zone group as its zone.
C5_MultiZoneKeepsGroup ==
    (HasBuilt /\ GroupZone /\ DeclaredSubnet # <<>> /\ DependenciesAnswered) =>
        LET vsw == DescribeVSwitch(DeclaredSubnet)
        IN  IF ZoneSuffix(vsw.ZoneId) \in GroupSuffixes(cfg.zone_id)
            THEN /\ built.err = ""
                 /\ built.req.VSwitchId = DeclaredSubnet
                 /\ built.req.VpcId = vsw.VpcId
                 /\ built.req.NetworkType = <<"V", "P", "C">>
                 /\ built.req.ZoneId = cfg.zone_id
            ELSE built.err = "NotInMultiZone"

C5_Witness ==
    /\ HasBuilt /\ cfg.zone_id = MultiBC /\ DeclaredSubnet = Subnet2
    /\ ZoneSuffix(DescribeVSwitch(DeclaredSubnet).ZoneId) \in GroupSuffixes(cfg.zone_id)
    /\ built.err = "" /\ built.req.VpcId = "vpc2" /\ pc = "c_submit"

\* C6: with an empty declared zone and a subnet given the builder returns no
\* validation error and the request has the subnet's owning zone, its VPC,
\* the subnet id and the VPC network type; with no subnet given the request
\* has the declared zone as it is, the classic network type and neither a
\* subnet id nor a VPC id, and the subnet lookup is not called.
C6_ZoneFromSubnet ==
    /\ (HasBuilt /\ cfg.zone_id = <<>> /\ DeclaredSubnet # <<>>) =>
          /\ built.err \in {"", "DecryptFailed", "VSwitchLookupFailed"}
          /\ built.err = "" =>
                /\ built.req.ZoneId = DescribeVSwitch(DeclaredSubnet).ZoneId
                /\ built.req.VpcId = DescribeVSwitch(DeclaredSubnet).VpcId
                /\ built.req.VSwitchId = DeclaredSubnet
                /\ built.req.NetworkType = <<"V", "P", "C">>
    /\ (HasBuilt /\ DeclaredSubnet = <<>>) =>
          /\ built.err \in {"", "DecryptFailed"}
          /\ built.vswCalls = <<>>
          /\ built.err = "" =>
                /\ built.req.ZoneId = cfg.zone_id
                /\ built.req.NetworkType = Classic
                /\ built.req.VSwitchId = <<>>
                /\ built.req.VpcId = ""

C6_Witness ==
    /\ HasBuilt /\ cfg.zone_id = <<>> /\ cfg.vswitch_id = Subnet1
    /\ built.err = "" /\ built.req.ZoneId = ZoneA /\ built.req.VpcId = "vpc1"
    /\ pc = "c_submit"

(***************************************************************************)
(* Properties of the lifecycle handlers, checked under Spec.               *)
(***************************************************************************)
\* the step is one of a handler (the remote's own steps leave these alone)
HandlerStep == <<pc, calls, ops>>' # <<pc, calls, ops>>

\* the positions of the call log that hold a call of the API
CallsTo(api) == {i \in 1..Len(calls) : calls[i].api = api}

\* the status polls of the call log that observed the status
PollsSeeing(status) ==
    {i \in CallsTo("StatusPoll") : calls[i].seen = status}

\* the handler h has returned res
Returned(h, res) == op = h /\ pc = "idle" /\ result = res

\* C2: every modify-spec call of the log comes right after a status poll that
\* observed "Running"; when Update has returned success, a poll later in the
\* log than the modify-spec call observed "Running"; and when the wait
\* before the call ends the invocation, its log holds no modify-spec call.
C2_SpecChangeBetweenPolls ==
    /\ [](\A i \in CallsTo("ModifyDBInstanceSpec") :
            /\ i - 1 \in PollsSeeing("Running")
            /\ Returned("Update", "ok") =>
                  \E j \in PollsSeeing("Running") : j > i)
    /\ [][(pc = "u_spec_wait1" /\ pc' = "idle") =>
            /\ result' \in {"Timeout", "FailedToReachTargetStatus",
                            "UnexpectedState", "ApiError"}
            /\ \A i \in 1..Len(calls') : calls'[i].api # "ModifyDBInstanceSpec"]_vars

C2_Witness ==
    /\ Returned("Update", "ok")
    /\ \E i \in CallsTo("ModifyDBInstanceSpec") :
         /\ i - 1 \in PollsSeeing("Running")
         /\ \E j \in PollsSeeing("DBInstanceClassChanging") : j > i
         /\ \E j \in PollsSeeing("Running") : j > i

\* the read calls of the remote API
ReadApis ==
    {"DescribeDBInstanceAttribute", "DescribeBackupPolicy", "DescribeSecurityIps"}

\* C3: an Update that began with no watched field changed logs only read
\* calls, and none of its steps changes the remote instance.
C3_NoChangeNoMutation ==
    /\ []((op = "Update" /\ changed = {}) =>
            \A i \in 1..Len(calls) : calls[i].api \in ReadApis)
    /\ [][(op' = "Update" /\ changed' = {} /\ HandlerStep) => remote' = remote]_vars

C3_Witness ==
    /\ Returned("Update", "ok") /\ changed = {}
    /\ \A k \in WatchedFields : cfg[k] = BaseState[k]
    /\ Len(calls) = 3 /\ remote.exists

\* the delimiter-joined members of the declared allowed-IP set
JoinedIps == Join(cfg.security_ip_list, COMMA_SEPARATED)

\* the create call is submitted in this step
CreateSubmitted == pc = "c_submit" /\ Len(calls') = Len(calls) + 1

\* the allowed-IP update call is accepted in this step
IpsAccepted == calls' = Append(calls, Call("ModifySecurityIps", d.id, ""))

\* C7 as stated: the IP string of the create request and of the allowed-IP
\* update call is the loopback default for an empty set and the joined
\* members for a non-empty set, and it is never empty.
C7_NeverEmptyIpString ==
    [][/\ CreateSubmitted =>
            /\ built.req.SecurityIPList =
                  IF cfg.security_ip_list = <<>> THEN LOCAL_HOST_IP ELSE JoinedIps
            /\ built.req.SecurityIPList # <<>>
       /\ IpsAccepted =>
            /\ remote'.SecurityIps =
                  IF cfg.security_ip_list = <<>> THEN LOCAL_HOST_IP ELSE JoinedIps
            /\ remote'.SecurityIps # <<>>]_vars

\* C7 amended: for an empty set both calls carry the loopback default. For
\* a non-empty set the create request carries the joined members, which is
\* the empty string when the only member is the empty string; the update
\* call carries the joined members unless that string is empty, and the
\* loopback default then, so the update call never carries an empty string.
C7_IpStringSent ==
    [][/\ CreateSubmitted =>
            built.req.SecurityIPList =
               IF cfg.security_ip_list = <<>> THEN LOCAL_HOST_IP ELSE JoinedIps
       /\ IpsAccepted =>
            /\ remote'.SecurityIps =
                  IF JoinedIps = <<>> THEN LOCAL_HOST_IP ELSE JoinedIps
            /\ remote'.SecurityIps # <<>>]_vars

C7_Witness ==
    /\ cfg.security_ip_list = << <<>> >>
    /\ op = "Update" /\ CallsTo("ModifySecurityIps") # {}
    /\ calls[Len(calls)] = Call("ModifySecurityIps", d.id, "")
    /\ remote.SecurityIps = LOCAL_HOST_IP

\* Read is invoked in this step and the remote reports the instance absent
ReadFindsAbsent ==
    /\ op' = "Read" /\ ops' = ops + 1
    /\ calls' = <<Call("DescribeDBInstanceAttribute", d.id, "NotFound")>>

\* C8: a Read that is told "not found" clears the identity, returns no
\* error and writes no field: the last-known state stays as it was. On a
\* resource a Read has cleared already it leaves the whole descriptor as it
\* was.
C8_ReadNotFoundClearsIdentity ==
    [][ReadFindsAbsent =>
          /\ d'.id = "" /\ result' = "ok" /\ pc' = "idle"
          /\ d'.state = d.state /\ d'.written = {}
          /\ (d.id = "" /\ op = "Read") => d' = d]_vars

C8_Witness ==
    /\ Returned("Read", "ok") /\ ops = 2 /\ d.id = "" /\ remote.id = "i-1"
    /\ d.state = BaseState
    /\ calls = <<Call("DescribeDBInstanceAttribute", "", "NotFound")>>

\* the delete call is answered with err in this step
DeleteAnswered(err) ==
    pc = "d_call" /\ calls' = Append(calls, Call("DeleteDBInstance", d.id, err))

\* C9: a "not found" answer to the delete call, at whichever attempt, ends
\* Delete with success; another error, while the retry budget remains,
\* does not end Delete: the delete call is issued again.
C9_DeleteNotFoundIsSuccess ==
    [][/\ DeleteAnswered("InvalidDBInstanceId.NotFound") =>
            pc' = "idle" /\ result' = "ok"
       /\ (DeleteAnswered("InternalError") /\ attempts + 1 < MaxAttempts) =>
            pc' = "d_call" /\ result' = "running" /\ attempts' = attempts + 1]_vars

C9_Witness ==
    /\ Returned("Delete", "ok") /\ Len(calls) = 2
    /\ calls[1] = Call("DeleteDBInstance", d.id, "InternalError")
    /\ calls[2] = Call("DeleteDBInstance", d.id, "InvalidDBInstanceId.NotFound")

\* the calls that are not keyed by the resource identifier
UnkeyedApis == {"Decrypt", "DescribeVSwitch", "CreateDBInstance"}

\* the identity is assigned in this step, by Create from the create response
IdAssignedByCreate ==
    d.id = "" /\ pc = "c_submit" /\ d'.id = remote'.id /\ d'.id # ""

\* C10 as stated: the identity changes only when Create assigns it, it
\* never changes afterwards, and every keyed call of the log carries it.
C10_IdentifierNeverChanges ==
    /\ [][d'.id # d.id => IdAssignedByCreate]_vars
    /\ [](\A i \in 1..Len(calls) :
            calls[i].api \notin UnkeyedApis => calls[i].id = remote.id)

\* C10 amended: the identity changes only when Create assigns it from the
\* create response, or when a Read (the one that ends Update included) is
\* told "not found" and clears it; it is never replaced by another
\* identifier. While held it is the identifier the remote assigned, and
\* every keyed call of the log carries that identifier, but for the calls of
\* a Read invoked on a resource without identity.
C10_IdentifierAssignedOnce ==
    /\ [][d'.id # d.id =>
            \/ IdAssignedByCreate
            \/ /\ d'.id = ""
               /\ calls'[Len(calls')] =
                     Call("DescribeDBInstanceAttribute", d.id, "NotFound")]_vars
    /\ [](d.id # "" => d.id = remote.id)
    /\ [](\A i \in 1..Len(calls) :
            calls[i].api \notin UnkeyedApis =>
               \/ calls[i].id = remote.id /\ calls[i].id # ""
               \/ calls[i].id = "" /\ op = "Read" /\ d.id = "")

C10_Witness ==
    /\ Returned("Read", "ok") /\ d.id = "" /\ remote.id = "i-2"
    /\ calls = <<Call("DescribeDBInstanceAttribute", "i-2", "NotFound")>>

\* the fields of the group whose remote call is api
GroupFields(api) ==
    CASE api = "ModifyBackupPolicy" -> {"backup_time", "backup_period"}
      [] api = "ModifyDBInstanceMaintainTime" ->
             {"maintain_start_time", "maintain_end_time"}
      [] api = "ModifyDBInstanceDescription" -> {"name"}
      [] api = "ModifySecurityIps" -> {"security_ip_list"}
      [] api \in {"Decrypt", "ResetAccountPassword"} ->
             {"account_password", "kms_encrypted_password"}
      [] api = "ModifyDBInstanceSpec" ->
             {"db_instance_class", "db_instance_storage", "replication_factor"}
      [] OTHER -> {}

\* the handler has returned an error because its last call, one of a field
\* group, failed
GroupCallFailed ==
    /\ pc = "idle" /\ op \in {"Update", "Create"} /\ calls # <<>>
    /\ result \in {"ApiError", "DecryptFailed"}
    /\ calls[Len(calls)].seen = "Error"
    /\ GroupFields(calls[Len(calls)].api) # {}

\* C11: when Update returns an error because the remote call of a field
\* group failed (for the credential group: the decryption or the
\* password-reset call), none of that group's fields is marked committed.
C11_CommitAfterSuccess ==
    GroupCallFailed =>
        GroupFields(calls[Len(calls)].api) \cap d.partialKeys = {}

\* the place of a call in the fixed order of Update: the six field groups,
\* then the calls of the final Read
GroupRank(api) ==
    CASE api = "ModifyBackupPolicy" -> 1
      [] api = "ModifyDBInstanceMaintainTime" -> 2
      [] api = "ModifyDBInstanceDescription" -> 3
      [] api = "ModifySecurityIps" -> 4
      [] api \in {"Decrypt", "ResetAccountPassword"} -> 5
      [] api \in {"StatusPoll", "ModifyDBInstanceSpec"} -> 6
      [] OTHER -> 7

\* the calls that change the remote instance
MutatingApis ==
    {"ModifyBackupPolicy", "ModifyDBInstanceMaintainTime",
     "ModifyDBInstanceDescription", "ModifySecurityIps", "ResetAccountPassword",
     "ModifyDBInstanceSpec"}

\* the value planned for a field: the declared one, or the last-known one
\* of a computed field that is not declared
Planned(k) == IF Undeclared(k) THEN d.state[k] ELSE cfg[k]

\* the call of the API was accepted in this invocation
Accepted(api) == \E i \in CallsTo(api) : calls[i].seen = ""

\* C12: the calls of an Update follow the fixed order of the groups, each
\* mutating call at most once; a failed call is the last call of the
\* invocation and Update has returned its error; the groups accepted before
\* it are marked committed and their values are on the remote while the
\* instance is present; the step that fails changes nothing on the remote.
C12_FirstFailureStops ==
    /\ [](op = "Update" =>
            /\ \A i, j \in 1..Len(calls) :
                  i < j => /\ GroupRank(calls[i].api) <= GroupRank(calls[j].api)
                           /\ calls[i].api \in MutatingApis =>
                                 calls[j].api # calls[i].api
            /\ \A i \in 1..Len(calls) :
                  (calls[i].seen = "Error" /\ GroupRank(calls[i].api) < 7) =>
                     /\ i = Len(calls) /\ pc = "idle"
                     /\ result \in {"ApiError", "DecryptFailed"}
            /\ Accepted("ModifyBackupPolicy") =>
                  /\ {"backup_time", "backup_period"} \subseteq d.partialKeys
                  /\ remote.exists =>
                        /\ remote.backup.PreferredBackupTime = Planned("backup_time")
                        /\ remote.backup.PreferredBackupPeriod =
                              Join(cfg.backup_period, COMMA_SEPARATED)
            /\ Accepted("ModifyDBInstanceMaintainTime") =>
                  /\ {"maintain_start_time", "maintain_end_time"}
                        \subseteq d.partialKeys
                  /\ remote.exists =>
                        /\ remote.instance.MaintainStartTime =
                              Planned("maintain_start_time")
                        /\ remote.instance.MaintainEndTime =
                              Planned("maintain_end_time")
            /\ Accepted("ModifyDBInstanceDescription") =>
                  /\ "name" \in d.partialKeys
                  /\ remote.exists => remote.instance.DBInstanceDescription = cfg.name
            /\ Accepted("ModifySecurityIps") =>
                  /\ "security_ip_list" \in d.partialKeys
                  /\ remote.exists =>
                        remote.SecurityIps = UpdateSecurityIPList(cfg.security_ip_list)
            /\ Accepted("ResetAccountPassword") =>
                  {"account_password", "kms_encrypted_password"} \cap d.partialKeys # {})
    /\ [][(op' = "Update" /\ HandlerStep /\ pc' = "idle" /\ result' # "ok") =>
            remote' = remote]_vars

C12_Witness ==
    /\ Returned("Update", "ApiError") /\ Len(calls) = 2
    /\ calls[1] = Call("ModifyBackupPolicy", d.id, "")
    /\ calls[2] = Call("ModifyDBInstanceDescription", d.id, "Error")
    /\ cfg.backup_time = "t1" /\ cfg.name = "n1"
    /\ remote.exists /\ remote.backup.PreferredBackupTime = "t1"
    /\ remote.instance.DBInstanceDescription = "n0"
    /\ d.partialKeys = {"backup_time", "backup_period"}

\* the calls of the Update pass that Create runs on the new resource
FirstPassApis == {"ModifyBackupPolicy", "ModifyDBInstanceMaintainTime"} \cup ReadApis

\* C13: in a Create, after the create-instance call, the log holds status
\* polls, then at most one backup-policy call and at most one maintain-time
\* call, then the calls of the re-read, and nothing else: no description,
\* allowed-IP, decryption, password-reset or modify-spec call, and no
\* status poll once the pass has begun; the pass is left only through the
\* re-read or a failed call of one of the two groups.
C13_FirstPassStopsEarly ==
    op = "Create" =>
        /\ \A i \in CallsTo("CreateDBInstance") : \A j \in (i + 1)..Len(calls) :
              calls[j].api \in FirstPassApis \cup {"StatusPoll"}
        /\ \A i, j \in 1..Len(calls) :
              (i < j /\ calls[i].api \in FirstPassApis) =>
                 /\ calls[j].api \in FirstPassApis
                 /\ GroupRank(calls[i].api) <= GroupRank(calls[j].api)
                 /\ calls[i].api \notin ReadApis => calls[j].api # calls[i].api
        /\ pc \in {"idle", "c_submit", "c_wait", "u_backup", "u_maint", "u_read"}
        /\ (pc = "idle" /\ result = "ok") => calls[Len(calls)].api \in ReadApis

C13_Witness ==
    /\ Returned("Create", "ok") /\ d.id # ""
    /\ {"name", "security_ip_list", "account_password", "db_instance_storage"}
          \subseteq changed
    /\ Accepted("ModifyBackupPolicy") /\ Accepted("ModifyDBInstanceMaintainTime")
    /\ calls[Len(calls)] = Call("DescribeSecurityIps", d.id, "")

\* the first call of the post-create Update pass in the log, 0 when none
FirstPassStart ==
    LET passCalls == {i \in 1..Len(calls) : calls[i].api \in FirstPassApis}
    IN  IF passCalls = {} THEN 0
        ELSE CHOOSE i \in passCalls : \A j \in passCalls : i <= j

\* C14: in a Create every status poll comes after the accepted
\* create-instance call, and the first call of the post-create Update pass
\* comes right after a poll that observed "Running"; when the wait ends
\* Create (timeout, "Deleting", another status, a failed fetch), Create
\* returns an error and its log holds no call of the pass.
C14_PassAfterRunning ==
    /\ [](op = "Create" =>
            /\ \A i \in CallsTo("StatusPoll") :
                  \E k \in CallsTo("CreateDBInstance") : k < i /\ calls[k].seen = ""
            /\ FirstPassStart # 0 =>
                  FirstPassStart - 1 \in PollsSeeing("Running"))
    /\ [][(pc = "c_wait" /\ pc' = "idle") =>
            /\ result' \in {"Timeout", "FailedToReachTargetStatus",
                            "UnexpectedState", "ApiError"}
            /\ \A i \in 1..Len(calls') : calls'[i].api \notin FirstPassApis]_vars

C14_Witness ==
    /\ Returned("Create", "FailedToReachTargetStatus")
    /\ PollsSeeing("Creating") # {} /\ PollsSeeing("Deleting") # {}
    /\ FirstPassStart = 0 /\ d.id # ""
    /\ "backup_time" \in changed /\ "maintain_start_time" \in changed

\* the last call of the log
LastCall == calls[Len(calls)]

\* C15: when Delete has returned success, either its last call is a delete
\* call answered "not found", or a delete call was accepted and its last
\* call is a status poll that found the instance absent; its last
\* observation is never a present status.
C15_DeleteSuccessMeansAbsent ==
    Returned("Delete", "ok") =>
        /\ calls # <<>>
        /\ \/ LastCall = Call("DeleteDBInstance", d.id, "InvalidDBInstanceId.NotFound")
           \/ /\ Accepted("DeleteDBInstance")
              /\ LastCall = Call("StatusPoll", d.id, "")
        /\ LastCall.seen \notin {"Creating", "Running", "Deleting",
                                 "DBInstanceClassChanging"}

C15_Witness ==
    /\ Returned("Delete", "ok") /\ Len(calls) = 3
    /\ calls[1] = Call("DeleteDBInstance", d.id, "")
    /\ calls[2] = Call("StatusPoll", d.id, "Deleting")
    /\ calls[3] = Call("StatusPoll", d.id, "")
    /\ ~remote.exists

\* what the create-request builder makes of the declared credential
BuilderCredential(decryptOk) ==
    ResolveCredential(cfg.account_password, cfg.kms_encrypted_password, decryptOk)

\* C17: when Update has run its credential group, it has called the
\* decryption service exactly if the builder would call it for the declared
\* clear-text credential and ciphertext, and the password of an accepted
\* password-reset call is the credential the builder would put in the
\* create request.
C17_SameCredentialPolicy ==
    (op = "Update" /\ CallsTo("Decrypt") \cup CallsTo("ResetAccountPassword") # {}) =>
        /\ CallsTo("Decrypt") # {} <=> BuilderCredential(TRUE).decryptCalls # <<>>
        /\ (Accepted("ResetAccountPassword") /\ remote.exists) =>
              remote.AccountPassword = BuilderCredential(TRUE).password

\* C18: a handler that has returned success after an accepted call that
\* changes the instance status has seen the change through: after
\* create-instance the instance has left "Creating"; after modify-spec the
\* spec change is no longer pending on the remote and the instance, while
\* present and not being deleted, is "Running" with the submitted class,
\* storage and replica count; after delete the instance is absent.
C18_SuccessAfterCompletion ==
    /\ (Returned("Create", "ok") /\ Accepted("CreateDBInstance")) =>
          /\ PollsSeeing("Running") # {}
          /\ remote.exists => remote.status # "Creating"
    /\ (Returned("Update", "ok") /\ Accepted("ModifyDBInstanceSpec")) =>
          /\ ~remote.pendingSpec
          /\ (remote.exists /\ ~remote.deleting) =>
                /\ remote.status = "Running"
                /\ remote.instance.DBInstanceClass = cfg.db_instance_class
                /\ remote.instance.DBInstanceStorage = cfg.db_instance_storage
    /\ (Returned("Delete", "ok") /\ Accepted("DeleteDBInstance")) => ~remote.exists

\* the fields Read mirrors, with the values the remote holds for them
Mirrored ==
    LET vals == [k \in DOMAIN BackupFields \cup DOMAIN InstanceFields
                        \cup DOMAIN ReplicationField |->
                   IF k \in DOMAIN BackupFields THEN BackupFields[k]
                   ELSE IF k \in DOMAIN InstanceFields THEN InstanceFields[k]
                   ELSE ReplicationField[k]]
    IN  vals

\* C19: an Update that has returned has either failed in a group, and then
\* its log holds no call of Read, its last call is the failed one and no
\* field was written; or it ends with the calls of Read, which come after
\* every other call, and its result is Read's: success unless a describe
\* call failed. The Read that ends a successful Update on a present
\* instance leaves every field it reads with the remote's value.
C19_UpdateEndsWithRead ==
    /\ [](Returned("Update", result) =>
            IF \E i \in 1..Len(calls) : calls[i].api \in ReadApis
            THEN /\ \A i, j \in 1..Len(calls) :
                       (i < j /\ calls[i].api \in ReadApis) => calls[j].api \in ReadApis
                 /\ result = IF LastCall.seen = "Error" THEN "ApiError" ELSE "ok"
                 /\ \A i \in 1..Len(calls) :
                       (calls[i].api \notin ReadApis /\ calls[i].api # "StatusPoll")
                          => calls[i].seen = ""
            ELSE /\ result # "ok" /\ calls # <<>>
                 /\ d.written = {}
                 /\ \/ LastCall.seen = "Error"
                    \/ LastCall.api = "StatusPoll" /\ LastCall.seen # "Running")
    /\ [][(op = "Update" /\ pc = "u_read" /\ result' = "ok" /\ d'.id # "") =>
            /\ \A k \in DOMAIN Mirrored : d'.state[k] = Mirrored[k]
            /\ ~d'.partial]_vars

C19_Witness ==
    /\ Returned("Update", "ok") /\ d.id # "" /\ Len(calls) = 4
    /\ calls[1] = Call("ModifyDBInstanceDescription", d.id, "")
    /\ calls[4] = Call("DescribeSecurityIps", d.id, "")
    /\ d.state.name = "n1" /\ d.state.retention_period = 7

\* the create-instance call of this resource has been accepted
CreateAccepted == remote.id \in InstanceIds

\* C20 as stated: in every state after the create-instance call was
\* accepted the identity is the identifier the remote assigned, and the
\* identity is empty when no create-instance call was accepted.
C20_IdentityAlwaysTracked ==
    /\ CreateAccepted => d.id = remote.id
    /\ remote.id = "" => d.id = ""

\* C20 amended: after the create-instance call was accepted the identity is
\* the identifier the remote assigned for as long as the instance is present,
\* also when Create has failed in its wait or in its Update pass; it is
\* empty only once a Read (the one that ends the Update pass included) was
\* told that the instance is absent. The identity is empty when no
\* create-instance call was accepted.
C20_PresentInstanceTracked ==
    /\ [](/\ (CreateAccepted /\ remote.exists) => d.id = remote.id
          /\ CreateAccepted => d.id \in {remote.id, ""}
          /\ remote.id = "" => d.id = "")
    /\ [][(CreateAccepted /\ d.id # "" /\ d'.id = "") =>
            /\ ~remote.exists
            /\ calls'[Len(calls')] =
                  Call("DescribeDBInstanceAttribute", d.id, "NotFound")]_vars

C20_Witness ==
    /\ Returned("Create", "ApiError") /\ CreateAccepted
    /\ LastCall = Call("ModifyBackupPolicy", d.id, "Error")
    /\ remote.exists /\ d.id = remote.id

(***************************************************************************)
(* Progress of Delete, checked under SpecLive.                             *)
(***************************************************************************)
\* C16: once the delete call is accepted and Delete waits, Delete goes on to
\* return success, whichever statuses the instance reports until it is
\* absent; it may only fall short of that by the timeout of the wait or by
\* a status fetch that fails.
C16_DeleteWaitsForAbsence ==
    (op = "Delete" /\ pc = "d_wait") ~>
        \/ Returned("Delete", "ok")
        \/ Returned("Delete", "Timeout")
        \/ Returned("Delete", "ApiError")

====
